---- MODULE Spec2Model ----
(***************************************************************************)
(* aws-efs-creator: the entry point bin/aws-efs-creator.ts and the stack   *)
(* assembler AwsEfsCreatorStack (lib/aws-efs-creator-stack.ts).            *)
(*                                                                         *)
(* A run is one pass through the module-level statements of the entry      *)
(* point and, inside them, the statements of the stack constructor.  Each  *)
(* statement (group) is one action; an exception thrown by a statement     *)
(* ends the run (Throw), as an uncaught exception ends a node process.     *)
(*                                                                         *)
(* A value that may be undefined (process.env.X, an optional property) is  *)
(* a sequence of length at most one: None is undefined, Some(s) is s.      *)
(***************************************************************************)
EXTENDS Integers, Sequences, FiniteSets, TLC

VARIABLES
    env,              \* process.env after dotenv.config()
    modeInput,        \* the mode selectors the caller's props carry
    lookupOk,         \* whether the engine resolves the network identifier
    pc,               \* the statement the run is at
    locals,           \* the entry point's module-level constants
    aspects,          \* Aspects.of(app): the registered visitors, in order
    props,            \* the props object given to the stack constructor
    stackLocals,      \* the constructor's local constants
    tree,             \* the declaration tree below the app, in declaration order
    visited,          \* positions of tree the aspects have visited (synthesis)
    artifact,         \* the cloud assembly app.synth() produced
    error             \* the uncaught exception that ended the run

vars == <<env, modeInput, lookupOk, pc, locals, aspects, props, stackLocals,
          tree, visited, artifact, error>>

----------------------------------------------------------------------------
(* Optional values and JavaScript string rendering                         *)

None == <<>>

Some(s) == <<s>>

\* `${v}` in a template literal: undefined renders as the text "undefined"
Str(v) == IF v = None THEN "undefined" ELSE v[1]

\* a record's property, undefined when the record does not carry it
Prop(rec, name) == IF name \in DOMAIN rec THEN rec[name] ELSE None

EmptyTags == [k \in {} |-> None]

----------------------------------------------------------------------------
(* External utilities of the repository (utils/*.ts)                       *)

\* utils/check-environment-variable.ts: a name is missing when its input is
\* unset or empty
IsMissing(e, name) == e[name] = None \/ e[name] = Some("")

\* checkEnvVariables(...names): the first missing name in the order given,
\* None when every name is present (also for no names at all)
RECURSIVE checkEnvVariables(_, _)
checkEnvVariables(names, e) ==
    IF names = <<>> THEN None
    ELSE IF IsMissing(e, Head(names)) THEN Some(Head(names))
    ELSE checkEnvVariables(Tail(names), e)

ConfigurationMissingError(name) ==
    [type |-> "ConfigurationMissingError", name |-> name]

PerformanceModeNames == {"generalPurpose", "maxIO"}

ThroughputModeNames == {"bursting", "provisioned"}

InvalidModeError(parser, raw, accepted) ==
    [type |-> "InvalidModeError", parser |-> parser, value |-> raw,
     accepted |-> accepted]

\* utils/efs-mode-parsing.ts: exact comparison against the member names; the
\* result is [ok |-> TRUE, mode |-> member] or [ok |-> FALSE, error |-> e]
parsePerformanceMode(raw) ==
    IF raw = Some("generalPurpose")
        THEN [ok |-> TRUE, mode |-> "PerformanceMode.GENERAL_PURPOSE"]
    ELSE IF raw = Some("maxIO")
        THEN [ok |-> TRUE, mode |-> "PerformanceMode.MAX_IO"]
    ELSE [ok |-> FALSE,
          error |-> InvalidModeError("parsePerformanceMode", raw,
                                     PerformanceModeNames)]

parseThroughputMode(raw) ==
    IF raw = Some("bursting")
        THEN [ok |-> TRUE, mode |-> "ThroughputMode.BURSTING"]
    ELSE IF raw = Some("provisioned")
        THEN [ok |-> TRUE, mode |-> "ThroughputMode.PROVISIONED"]
    ELSE [ok |-> FALSE,
          error |-> InvalidModeError("parseThroughputMode", raw,
                                     ThroughputModeNames)]

\* a node supports tagging when it carries a tag manager
Taggable(node) == "tags" \in DOMAIN node

\* a visit that joins the new value to the label the node already has
\* instead of overwriting it
ApplyTagsVisitJoining(tagSet, node) ==
    IF Taggable(node)
        THEN [node EXCEPT !.tags =
                [k \in DOMAIN @ \cup DOMAIN tagSet |->
                    IF k \in DOMAIN tagSet
                        THEN IF k \in DOMAIN @
                                 THEN Some(Str(@[k]) \o "," \o Str(tagSet[k]))
                                 ELSE tagSet[k]
                        ELSE @[k]]]
        ELSE node

\* utils/apply-tag.ts, ApplyTags.visit(node): every entry of the tag set is
\* set on a taggable node; any other node is left as it is
ApplyTagsVisit(tagSet, node) ==
    IF Taggable(node)
        THEN [node EXCEPT !.tags =
                [k \in DOMAIN @ \cup DOMAIN tagSet |->
                    IF k \in DOMAIN tagSet THEN tagSet[k] ELSE @[k]]]
        ELSE node

\* all registered aspects applied to one node, in registration order
RECURSIVE InvokeAspects(_, _)
InvokeAspects(as, node) ==
    IF as = <<>> THEN node
    ELSE InvokeAspects(Tail(as), ApplyTagsVisit(Head(as), node))

----------------------------------------------------------------------------
(* Input domains                                                           *)

Environments ==
    [APP_NAME : {None, Some(""), Some("acme")},
     OWNER : {None, Some(""), Some("ops")},
     VPC_ID : {None, Some("vpc-123")},
     CDK_DEPLOY_REGION : {None, Some("eu-west-1")},
     ENVIRONMENT : {None, Some("development"), Some("staging"),
                    Some("production"), Some("demonstration"),
                    Some("Production")},
     CDK_DEFAULT_ACCOUNT : {None, Some("111122223333")},
     CDK_DEFAULT_REGION : {None}]

ModeStrings == {None, Some("generalPurpose"), Some("maxIO"), Some("MAXIO"),
                Some("bursting"), Some("provisioned"), Some("turbo")}

NoLocals == [account |-> None, region |-> None, cdkRegion |-> None,
             deployEnvironment |-> None, appName |-> None, owner |-> None]

NoStackLocals == [vpc |-> None, removalPolicy |-> None, efsSG |-> None,
                  performanceMode |-> None, throughputMode |-> None,
                  efsFileSystem |-> None]

----------------------------------------------------------------------------
(* Initial states                                                          *)

Idle ==
    /\ pc = "start"
    /\ locals = NoLocals
    /\ aspects = <<>>
    /\ props = None
    /\ stackLocals = NoStackLocals
    /\ tree = <<>>
    /\ visited = {}
    /\ artifact = None
    /\ error = None

\* the entry point as written: stackProps and the constructor call carry no
\* performanceMode and no throughputMode property
InitBin ==
    /\ env \in Environments
    /\ lookupOk \in BOOLEAN
    /\ modeInput = [performanceMode |-> None, throughputMode |-> None]
    /\ Idle

\* the same run with the props' two mode selectors ranging over every raw
\* string (and undefined): every StackConfiguration the assembler can be given
Init ==
    /\ env \in Environments
    /\ lookupOk \in BOOLEAN
    /\ modeInput \in [performanceMode : ModeStrings, throughputMode : ModeStrings]
    /\ Idle

----------------------------------------------------------------------------
(* Entry point, bin/aws-efs-creator.ts                                     *)

\* an uncaught exception: the process ends, nothing later runs
Throw(e) ==
    /\ pc' = "failed"
    /\ error' = Some(e)

\* lines 12-19: dotenv, the app, and the four inputs read before validation
LoadConfiguration ==
    /\ pc = "start"
    /\ locals' = [locals EXCEPT !.account = env["CDK_DEFAULT_ACCOUNT"],
                                !.region = env["CDK_DEFAULT_REGION"],
                                !.cdkRegion = env["CDK_DEPLOY_REGION"],
                                !.deployEnvironment = env["ENVIRONMENT"]]
    /\ pc' = "checkEnv"
    /\ UNCHANGED <<env, modeInput, lookupOk, aspects, props, stackLocals, tree,
                   visited, artifact, error>>

\* a validation that forgets OWNER
ValidatedNamesShort == <<"APP_NAME", "VPC_ID">>

\* the names line 22 validates, in the order given
ValidatedNames == <<"APP_NAME", "OWNER", "VPC_ID">>

\* line 22: checkEnvVariables('APP_NAME', 'OWNER', 'VPC_ID')
EnvironmentValidation ==
    /\ pc = "checkEnv"
    /\ LET missing == checkEnvVariables(ValidatedNames, env) IN
         IF missing = None
             THEN /\ pc' = "readNames"
                  /\ UNCHANGED error
             ELSE Throw(ConfigurationMissingError(missing[1]))
    /\ UNCHANGED <<env, modeInput, lookupOk, locals, aspects, props, stackLocals,
                   tree, visited, artifact>>

\* lines 23-24
ReadNames ==
    /\ pc = "readNames"
    /\ locals' = [locals EXCEPT !.appName = env["APP_NAME"],
                                !.owner = env["OWNER"]]
    /\ pc' = "registerTags"
    /\ UNCHANGED <<env, modeInput, lookupOk, aspects, props, stackLocals, tree,
                   visited, artifact, error>>

\* a tag set with project and owner exchanged
TagSetSwapped ==
    [environment |-> locals.deployEnvironment,
     project |-> locals.owner,
     owner |-> locals.appName]

\* lines 27-31: the argument of new ApplyTags(...)
TagSet ==
    [environment |-> locals.deployEnvironment,
     project |-> locals.appName,
     owner |-> locals.owner]

\* lines 26-31: appAspects.add(new ApplyTags({...}))
RegisterTagAspect ==
    /\ pc = "registerTags"
    /\ aspects' = Append(aspects, TagSet)
    /\ pc' = "instantiate"
    /\ UNCHANGED <<env, modeInput, lookupOk, locals, props, stackLocals, tree,
                   visited, artifact, error>>

\* a prefix that leaves the environment out
StackPropsNoEnvironment ==
    [resourcePrefix |-> Str(locals.appName),
     env |-> [region |-> locals.cdkRegion, account |-> locals.account],
     deployRegion |-> locals.cdkRegion,
     deployEnvironment |-> locals.deployEnvironment,
     appName |-> locals.appName,
     vpcId |-> env["VPC_ID"]]

\* lines 33-43: const stackProps
StackProps ==
    [resourcePrefix |-> Str(locals.appName) \o "-" \o Str(locals.deployEnvironment),
     env |-> [region |-> locals.cdkRegion, account |-> locals.account],
     deployRegion |-> locals.cdkRegion,
     deployEnvironment |-> locals.deployEnvironment,
     appName |-> locals.appName,
     vpcId |-> env["VPC_ID"]]

\* lines 44-48: the object literal given to the constructor, together with the
\* mode selectors of the caller's configuration
ConstructorProps ==
    [k \in DOMAIN StackProps \cup {"stackName", "description",
                                   "performanceMode", "throughputMode"} |->
        CASE k = "stackName" ->
                Str(locals.appName) \o "-" \o Str(locals.deployEnvironment) \o "-"
                    \o Str(locals.cdkRegion) \o "-AwsEfsCreatorStack"
          [] k = "description" ->
                "AwsEfsCreatorStack for " \o Str(locals.appName) \o " in "
                    \o Str(locals.cdkRegion) \o " " \o Str(locals.deployEnvironment)
                    \o "."
          [] k \in {"performanceMode", "throughputMode"} -> modeInput[k]
          [] OTHER -> StackProps[k]]

\* lines 44-48 and the constructor's super(scope, id, props), part_000:22
InstantiateStack ==
    /\ pc = "instantiate"
    /\ props' = Some(ConstructorProps)
    /\ tree' = <<[kind |-> "Stack", id |-> "AwsEfsCreatorStack",
                  stackName |-> ConstructorProps.stackName,
                  description |-> ConstructorProps.description,
                  env |-> ConstructorProps.env,
                  tags |-> EmptyTags]>>
    /\ pc' = "lookup"
    /\ UNCHANGED <<env, modeInput, lookupOk, locals, aspects, stackLocals, visited,
                   artifact, error>>

----------------------------------------------------------------------------
(* Stack assembler, AwsEfsCreatorStack.constructor                         *)

P == props[1]

\* lines 24-26: ec2.Vpc.fromLookup; the engine's failure is thrown as it is
LookupVpc ==
    /\ pc = "lookup"
    /\ IF lookupOk
           THEN /\ tree' = Append(tree, [kind |-> "VpcLookup",
                                          id |-> P.resourcePrefix \o "-VPC",
                                          vpcId |-> P.vpcId])
                /\ stackLocals' = [stackLocals EXCEPT
                                      !.vpc = Some(P.resourcePrefix \o "-VPC")]
                /\ pc' = "removalPolicy"
                /\ UNCHANGED error
           ELSE /\ Throw([type |-> "NetworkLookupError", vpcId |-> P.vpcId])
                /\ UNCHANGED <<tree, stackLocals>>
    /\ UNCHANGED <<env, modeInput, lookupOk, locals, aspects, props, visited,
                   artifact>>

\* a derivation that retains everywhere but in development
RemovalPolicyOfLenient(deployEnvironment) ==
    IF deployEnvironment = Some("development")
        THEN "RemovalPolicy.DESTROY" ELSE "RemovalPolicy.RETAIN"

\* line 27: the conditional expression
RemovalPolicyOf(deployEnvironment) ==
    IF deployEnvironment = Some("production")
        THEN "RemovalPolicy.RETAIN" ELSE "RemovalPolicy.DESTROY"

\* line 27: const removalPolicy
ComputeRemovalPolicy ==
    /\ pc = "removalPolicy"
    /\ stackLocals' = [stackLocals EXCEPT
                          !.removalPolicy = Some(RemovalPolicyOf(P.deployEnvironment))]
    /\ pc' = "declareSG"
    /\ UNCHANGED <<env, modeInput, lookupOk, locals, aspects, props, tree, visited,
                   artifact, error>>

\* lines 30-34: new ec2.SecurityGroup; no removal policy is set yet
DeclareSecurityGroup ==
    /\ pc = "declareSG"
    /\ tree' = Append(tree, [kind |-> "SecurityGroup",
                             id |-> P.resourcePrefix \o "-efsSG",
                             securityGroupName |-> P.resourcePrefix \o "-efsSG",
                             vpc |-> stackLocals.vpc,
                             allowAllOutbound |-> TRUE,
                             removalPolicy |-> None,
                             tags |-> EmptyTags])
    /\ stackLocals' = [stackLocals EXCEPT !.efsSG = Some(P.resourcePrefix \o "-efsSG")]
    /\ pc' = "applyRemovalPolicy"
    /\ UNCHANGED <<env, modeInput, lookupOk, locals, aspects, props, visited,
                   artifact, error>>

\* the construct a local constant refers to
NodeById(t, id) == t[CHOOSE i \in 1..Len(t) : t[i].id = id]

\* the tree with the node called id replaced by node
UpdateNode(t, id, node) ==
    [i \in 1..Len(t) |-> IF t[i].id = id THEN node ELSE t[i]]

\* line 35: efsSG.applyRemovalPolicy(removalPolicy)
ApplyRemovalPolicy ==
    /\ pc = "applyRemovalPolicy"
    /\ LET sg == NodeById(tree, stackLocals.efsSG[1])
       IN tree' = UpdateNode(tree, sg.id,
                             [sg EXCEPT !.removalPolicy = stackLocals.removalPolicy])
    /\ pc' = "parsePerformanceMode"
    /\ UNCHANGED <<env, modeInput, lookupOk, locals, aspects, props, stackLocals,
                   visited, artifact, error>>

\* a call that falls back to general purpose when the parser throws
PerformanceModeOrDefault(raw) ==
    IF parsePerformanceMode(raw).ok THEN parsePerformanceMode(raw)
    ELSE [ok |-> TRUE, mode |-> "PerformanceMode.GENERAL_PURPOSE"]

\* line 38: the call parsePerformanceMode(props.performanceMode)
PerformanceModeCall(raw) == parsePerformanceMode(raw)

\* line 38: const performanceMode
ParsePerformanceMode ==
    /\ pc = "parsePerformanceMode"
    /\ LET r == PerformanceModeCall(Prop(P, "performanceMode")) IN
         IF r.ok
             THEN /\ stackLocals' = [stackLocals EXCEPT !.performanceMode = Some(r.mode)]
                  /\ pc' = "parseThroughputMode"
                  /\ UNCHANGED error
             ELSE /\ Throw(r.error)
                  /\ UNCHANGED stackLocals
    /\ UNCHANGED <<env, modeInput, lookupOk, locals, aspects, props, tree, visited,
                   artifact>>

\* a call that swallows the parser's exception and goes on without a mode
ThroughputModeSwallowed(raw) ==
    IF parseThroughputMode(raw).ok THEN parseThroughputMode(raw)
    ELSE [ok |-> TRUE, mode |-> "undefined"]

\* line 39: the call parseThroughputMode(props.throughputMode)
ThroughputModeCall(raw) == parseThroughputMode(raw)

\* line 39: const throughputMode
ParseThroughputMode ==
    /\ pc = "parseThroughputMode"
    /\ LET r == ThroughputModeCall(Prop(P, "throughputMode")) IN
         IF r.ok
             THEN /\ stackLocals' = [stackLocals EXCEPT !.throughputMode = Some(r.mode)]
                  /\ pc' = "declareFileSystem"
                  /\ UNCHANGED error
             ELSE /\ Throw(r.error)
                  /\ UNCHANGED stackLocals
    /\ UNCHANGED <<env, modeInput, lookupOk, locals, aspects, props, tree, visited,
                   artifact>>

\* lines 41-51: the id and the properties of new efs.FileSystem
FileSystemProps ==
    [kind |-> "FileSystem",
     id |-> P.resourcePrefix \o "-efsFileSystem",
     fileSystemName |-> P.resourcePrefix \o "-efsFileSystem",
     vpc |-> stackLocals.vpc,
     removalPolicy |-> stackLocals.removalPolicy,
     securityGroup |-> stackLocals.efsSG,
     encrypted |-> TRUE,
     performanceMode |-> stackLocals.performanceMode,
     allowAnonymousAccess |-> FALSE,
     throughputMode |-> stackLocals.throughputMode,
     lifecyclePolicy |-> "LifecyclePolicy.AFTER_90_DAYS",
     resourcePolicy |-> <<>>,
     tags |-> EmptyTags]

\* lines 41-51: const efsFileSystem
DeclareFileSystem ==
    /\ pc = "declareFileSystem"
    /\ tree' = Append(tree, FileSystemProps)
    /\ stackLocals' = [stackLocals EXCEPT !.efsFileSystem = Some(FileSystemProps.id)]
    /\ pc' = "addPolicy"
    /\ UNCHANGED <<env, modeInput, lookupOk, locals, aspects, props, visited,
                   artifact, error>>

\* a statement without the mount-target condition
MountStatementUnconditional ==
    [effect |-> "Allow",
     actions |-> {"elasticfilesystem:ClientMount"},
     principals |-> {"*"},
     conditions |-> <<>>]

\* lines 55-63: new iam.PolicyStatement; the effect is the engine's default
\* (Allow), AnyPrincipal is "*"; conditions are <<operator, key, value>>
MountStatement ==
    [effect |-> "Allow",
     actions |-> {"elasticfilesystem:ClientMount"},
     principals |-> {"*"},
     conditions |-> <<<<"Bool", "elasticfilesystem:AccessedViaMountTarget", "true">>>>]

\* lines 54-64: efsFileSystem.addToResourcePolicy
AddToResourcePolicy ==
    /\ pc = "addPolicy"
    /\ LET fs == NodeById(tree, stackLocals.efsFileSystem[1])
       IN tree' = UpdateNode(tree, fs.id,
                             [fs EXCEPT !.resourcePolicy = Append(@, MountStatement)])
    /\ pc' = "outputSG"
    /\ UNCHANGED <<env, modeInput, lookupOk, locals, aspects, props, stackLocals,
                   visited, artifact, error>>

\* lines 67-71: new cdk.CfnOutput(this, 'efsSG', ...)
OutputSecurityGroup ==
    /\ pc = "outputSG"
    /\ tree' = Append(tree, [kind |-> "CfnOutput",
                             id |-> "efsSG",
                             value |-> [ref |-> stackLocals.efsSG[1],
                                        attr |-> "securityGroupId"],
                             exportName |-> P.resourcePrefix \o "-efsSG",
                             description |->
                                 "The security group id for the EFS file system."])
    /\ pc' = "outputFS"
    /\ UNCHANGED <<env, modeInput, lookupOk, locals, aspects, props, stackLocals,
                   visited, artifact, error>>

\* lines 74-78: new cdk.CfnOutput(this, 'efsFileSystemId', ...)
OutputFileSystem ==
    /\ pc = "outputFS"
    /\ tree' = Append(tree, [kind |-> "CfnOutput",
                             id |-> "efsFileSystemId",
                             value |-> [ref |-> stackLocals.efsFileSystem[1],
                                        attr |-> "fileSystemId"],
                             exportName |-> P.resourcePrefix \o "-efsFileSystemId",
                             description |->
                                 "The file system id for the EFS file system."])
    /\ pc' = "synth"
    /\ UNCHANGED <<env, modeInput, lookupOk, locals, aspects, props, stackLocals,
                   visited, artifact, error>>

----------------------------------------------------------------------------
(* Synthesis, bin/aws-efs-creator.ts line 50                               *)

\* app.synth() invokes the registered aspects on every node of the tree,
\* each node once, in an order the callers may not rely on
VisitNode ==
    /\ pc = "synth"
    /\ \E i \in (1..Len(tree)) \ visited :
         /\ tree' = [tree EXCEPT ![i] = InvokeAspects(aspects, tree[i])]
         /\ visited' = visited \cup {i}
    /\ UNCHANGED <<env, modeInput, lookupOk, pc, locals, aspects, props,
                   stackLocals, artifact, error>>

\* app.synth() then writes the assembly of the whole tree
Synthesize ==
    /\ pc = "synth"
    /\ visited = 1..Len(tree)
    /\ artifact' = Some(tree)
    /\ pc' = "done"
    /\ UNCHANGED <<env, modeInput, lookupOk, locals, aspects, props, stackLocals,
                   tree, visited, error>>

----------------------------------------------------------------------------
(* Specifications                                                          *)

EntryPoint ==
    \/ LoadConfiguration
    \/ EnvironmentValidation
    \/ ReadNames
    \/ RegisterTagAspect
    \/ InstantiateStack

Next ==
    \/ EntryPoint
    \/ LookupVpc
    \/ ComputeRemovalPolicy
    \/ DeclareSecurityGroup
    \/ ApplyRemovalPolicy
    \/ ParsePerformanceMode
    \/ ParseThroughputMode
    \/ DeclareFileSystem
    \/ AddToResourcePolicy
    \/ OutputSecurityGroup
    \/ OutputFileSystem
    \/ VisitNode
    \/ Synthesize

\* every configuration the assembler can be given
Spec == Init /\ [][Next]_vars

\* the statements a run of the entry point as written can reach: its props
\* carry no mode selector, so line 38 of the constructor is the last one
NextBin ==
    \/ EntryPoint
    \/ LookupVpc
    \/ ComputeRemovalPolicy
    \/ DeclareSecurityGroup
    \/ ApplyRemovalPolicy
    \/ ParsePerformanceMode

SpecBin == InitBin /\ [][NextBin]_vars

\* the entry point as written under the whole next-state relation
SpecBinFull == InitBin /\ [][Next]_vars

----------------------------------------------------------------------------
(* ApplyTags.visit applied repeatedly to one node                          *)

MaxApplications == 3

TagKeys == {"environment", "owner", "Name"}

TagValues == {Some("old"), Some("production")}

\* a taggable node with any labels it may already carry, and a node without
\* tag support
SampleNodes ==
    {[kind |-> "SecurityGroup", id |-> "n", tags |-> t] :
        t \in UNION {[K -> TagValues] : K \in SUBSET TagKeys}}
    \cup {[kind |-> "CfnOutput", id |-> "n"]}

SampleTagSets ==
    [environment : {None, Some("production"), Some("staging")},
     project : {Some("acme")},
     owner : {Some("ops"), Some("old")}]

\* tree holds the node as given, then the node after each application
InitTags ==
    /\ env \in {e \in Environments : \A n \in DOMAIN e : e[n] = None}
    /\ lookupOk = TRUE
    /\ modeInput = [performanceMode |-> None, throughputMode |-> None]
    /\ pc = "tagging"
    /\ locals = NoLocals
    /\ aspects \in {<<ts>> : ts \in SampleTagSets}
    /\ props = None
    /\ stackLocals = NoStackLocals
    /\ tree \in {<<n>> : n \in SampleNodes}
    /\ visited = {}
    /\ artifact = None
    /\ error = None

ApplyAgain ==
    /\ pc = "tagging"
    /\ Len(tree) <= MaxApplications
    /\ tree' = Append(tree, InvokeAspects(aspects, tree[Len(tree)]))
    /\ UNCHANGED <<env, modeInput, lookupOk, pc, locals, aspects, props,
                   stackLocals, visited, artifact, error>>

SpecTags == InitTags /\ [][ApplyAgain]_vars

----------------------------------------------------------------------------
(* Properties                                                              *)

\* the constructor has returned: the stack is assembled
Assembled == pc \in {"synth", "done"}

NodesOfKind(kind) == {i \in 1..Len(tree) : tree[i].kind = kind}

\* C1: in an assembled stack the security group and the file system carry
\* removal policy RETAIN exactly when ENVIRONMENT is the literal 'production'
\* and DESTROY for every other value (also an absent one); in no state does
\* a node carry any other removal policy than the derived one.
C1_RemovalPolicyFromEnvironment ==
    LET derived == IF env.ENVIRONMENT = Some("production")
                       THEN "RemovalPolicy.RETAIN" ELSE "RemovalPolicy.DESTROY"
    IN /\ \A i \in 1..Len(tree) :
            ("removalPolicy" \in DOMAIN tree[i] /\ tree[i].removalPolicy # None)
                => tree[i].removalPolicy = Some(derived)
       /\ Assembled =>
            /\ NodesOfKind("SecurityGroup") # {}
            /\ NodesOfKind("FileSystem") # {}
            /\ \A i \in NodesOfKind("SecurityGroup") \cup NodesOfKind("FileSystem") :
                  tree[i].removalPolicy = Some(derived)

C1_Witness ==
    /\ pc = "done"
    /\ env.ENVIRONMENT = Some("production")
    /\ \E i \in NodesOfKind("FileSystem") :
          tree[i].removalPolicy = Some("RemovalPolicy.RETAIN")
    /\ \E i \in NodesOfKind("SecurityGroup") :
          tree[i].removalPolicy = Some("RemovalPolicy.RETAIN")

\* C2: when APP_NAME, OWNER or VPC_ID is unset or empty, the run past line 22
\* has failed with the first missing name in that order, and no tag aspect is
\* registered, no stack instantiated, no network looked up, nothing
\* synthesized; validating no names at all succeeds.
C2_HaltsAtFirstMissingName ==
    LET names == <<"APP_NAME", "OWNER", "VPC_ID">>
        missing == {i \in 1..3 : env[names[i]] \in {None, Some("")}}
        first == CHOOSE i \in missing : \A j \in missing : i <= j
    IN /\ (missing # {} /\ pc \notin {"start", "checkEnv"}) =>
            /\ pc = "failed"
            /\ error = Some([type |-> "ConfigurationMissingError",
                             name |-> names[first]])
       /\ missing # {} =>
            /\ aspects = <<>>
            /\ props = None
            /\ tree = <<>>
            /\ stackLocals = NoStackLocals
            /\ visited = {}
            /\ artifact = None
       /\ (missing = {} /\ error # None) =>
            error[1].type # "ConfigurationMissingError"
       /\ checkEnvVariables(<<>>, env) = None

C2_Witness ==
    /\ pc = "failed"
    /\ env.APP_NAME = Some("acme")
    /\ env.OWNER = Some("")
    /\ env.VPC_ID = None
    /\ error = Some([type |-> "ConfigurationMissingError", name |-> "OWNER"])

\* C3: if any of APP_NAME, OWNER, VPC_ID, CDK_DEPLOY_REGION, ENVIRONMENT is
\* absent, no resource is declared and a finished run has ended in a
\* ConfigurationMissingError naming an absent input.
C3_RequiredInputsEnforced ==
    LET required == {"APP_NAME", "OWNER", "VPC_ID", "CDK_DEPLOY_REGION",
                     "ENVIRONMENT"}
    IN (\E n \in required : env[n] = None) =>
          /\ \A i \in 1..Len(tree) : tree[i].kind = "Stack"
          /\ pc \in {"failed", "done"} =>
                /\ error # None
                /\ error[1].type = "ConfigurationMissingError"
                /\ error[1].name \in required
                /\ env[error[1].name] = None

\* C4: once line 38 (line 39) has run, the performance (throughput) mode is
\* the member named by the raw string when the string is exactly one of the
\* two accepted names, and otherwise, an absent value included, the run has
\* failed with InvalidModeError carrying the raw value and the accepted set,
\* and no mode was defaulted.
C4_ModeParsersExact ==
    LET rawP == modeInput.performanceMode
        rawT == modeInput.throughputMode
        memberP == IF rawP = Some("generalPurpose")
                       THEN "PerformanceMode.GENERAL_PURPOSE"
                       ELSE "PerformanceMode.MAX_IO"
        memberT == IF rawT = Some("bursting")
                       THEN "ThroughputMode.BURSTING"
                       ELSE "ThroughputMode.PROVISIONED"
        okP == rawP \in {Some("generalPurpose"), Some("maxIO")}
        okT == rawT \in {Some("bursting"), Some("provisioned")}
        afterT == {"declareFileSystem", "addPolicy", "outputSG", "outputFS",
                   "synth", "done"}
        policyApplied == \E i \in NodesOfKind("SecurityGroup") :
                             tree[i].removalPolicy # None
        pastP == \/ pc \in afterT \cup {"parseThroughputMode"}
                 \/ pc = "failed" /\ policyApplied
        pastT == \/ pc \in afterT
                 \/ pc = "failed" /\ policyApplied /\ okP
    IN /\ (pastP /\ okP) =>
            /\ stackLocals.performanceMode = Some(memberP)
            /\ error # None => error[1].parser # "parsePerformanceMode"
       /\ (pastP /\ ~okP) =>
            /\ pc = "failed"
            /\ error = Some([type |-> "InvalidModeError",
                             parser |-> "parsePerformanceMode",
                             value |-> rawP,
                             accepted |-> {"generalPurpose", "maxIO"}])
            /\ stackLocals.performanceMode = None
       /\ (pastT /\ okT) =>
            /\ stackLocals.throughputMode = Some(memberT)
            /\ error = None
       /\ (pastT /\ ~okT) =>
            /\ pc = "failed"
            /\ error = Some([type |-> "InvalidModeError",
                             parser |-> "parseThroughputMode",
                             value |-> rawT,
                             accepted |-> {"bursting", "provisioned"}])
            /\ stackLocals.throughputMode = None
       /\ \A i \in NodesOfKind("FileSystem") :
            /\ okP /\ tree[i].performanceMode = Some(memberP)
            /\ okT /\ tree[i].throughputMode = Some(memberT)

C4_Witness ==
    /\ pc = "failed"
    /\ modeInput.performanceMode = Some("MAXIO")
    /\ error # None
    /\ error[1].type = "InvalidModeError"
    /\ error[1].value = Some("MAXIO")

\* C5: when the constructor is entered, its props carry a resolved
\* performance-mode and a resolved throughput-mode selector.
C5_ModeSelectorsResolved ==
    props # None =>
        /\ Prop(props[1], "performanceMode") # None
        /\ Prop(props[1], "throughputMode") # None

\* C6: with a missing validated input, a failing network lookup or a raw mode
\* string a parser rejects, the run never reaches synthesis and produces no
\* artifact, and the tree holds nothing declared after the failing step;
\* a failed run has its error and no artifact.
C6_FatalConditionAborts ==
    LET missing == \E n \in {"APP_NAME", "OWNER", "VPC_ID"} :
                       env[n] \in {None, Some("")}
        badP == modeInput.performanceMode \notin {Some("generalPurpose"),
                                                  Some("maxIO")}
        badT == modeInput.throughputMode \notin {Some("bursting"),
                                                 Some("provisioned")}
        kinds == {tree[i].kind : i \in 1..Len(tree)}
    IN /\ (missing \/ ~lookupOk \/ badP \/ badT) =>
            /\ pc \notin {"synth", "done"}
            /\ artifact = None
            /\ visited = {}
       /\ missing => tree = <<>>
       /\ ~lookupOk => kinds \subseteq {"Stack"}
       /\ (badP \/ badT) => kinds \subseteq {"Stack", "VpcLookup", "SecurityGroup"}
       /\ badP => stackLocals.performanceMode = None
       /\ badT => stackLocals.throughputMode = None
       /\ pc = "failed" => error # None /\ artifact = None /\ visited = {}
       /\ error # None => pc = "failed"

C6_Witness ==
    /\ pc = "failed"
    /\ error # None
    /\ error[1].type = "InvalidModeError"
    /\ error[1].parser = "parseThroughputMode"
    /\ NodesOfKind("SecurityGroup") # {}
    /\ NodesOfKind("FileSystem") = {}

\* C7: in an assembled stack the file system has exactly one policy
\* statement; it allows elasticfilesystem:ClientMount to any principal under
\* the Bool condition elasticfilesystem:AccessedViaMountTarget = "true", so it
\* allows a request exactly when the request is a mount whose context has
\* that key with the value "true".
C7_MountOnlyViaMountTarget ==
    LET key == "elasticfilesystem:AccessedViaMountTarget"
        contexts == {<<>>, <<"true">>, <<"false">>}
        requests == [action : {"elasticfilesystem:ClientMount",
                               "elasticfilesystem:ClientWrite"},
                     principal : {"anonymous", "arn:aws:iam::111122223333:root"},
                     viaMountTarget : contexts]
        holds(c, r) == /\ c[1] = "Bool"
                       /\ c[2] = key
                       /\ r.viaMountTarget = <<c[3]>>
        allows(s, r) == /\ s.effect = "Allow"
                        /\ r.action \in s.actions
                        /\ ("*" \in s.principals \/ r.principal \in s.principals)
                        /\ \A j \in 1..Len(s.conditions) : holds(s.conditions[j], r)
    IN Assembled =>
         /\ NodesOfKind("FileSystem") # {}
         /\ \A i \in NodesOfKind("FileSystem") :
              /\ Len(tree[i].resourcePolicy) = 1
              /\ tree[i].resourcePolicy[1].actions = {"elasticfilesystem:ClientMount"}
              /\ tree[i].resourcePolicy[1].principals = {"*"}
              /\ tree[i].resourcePolicy[1].conditions = <<<<"Bool", key, "true">>>>
              /\ \A r \in requests :
                    allows(tree[i].resourcePolicy[1], r)
                        <=> /\ r.action = "elasticfilesystem:ClientMount"
                            /\ r.viaMountTarget = <<"true">>

C7_Witness ==
    /\ pc = "done"
    /\ \E i \in NodesOfKind("FileSystem") :
          /\ Len(tree[i].resourcePolicy) = 1
          /\ Len(tree[i].resourcePolicy[1].conditions) = 1

\* C8: exactly one tag aspect is registered; during synthesis every visited
\* taggable node carries exactly environment = ENVIRONMENT, project =
\* APP_NAME, owner = OWNER and every unvisited one no label; a node without
\* tag support gets no label and no error is raised; so at the end of
\* synthesis the labelling is the same whatever order the nodes were visited
\* in.
C8_TagsOnEveryTaggableNode ==
    LET expected == [environment |-> env.ENVIRONMENT,
                     project |-> env.APP_NAME,
                     owner |-> env.OWNER]
    IN Assembled =>
         /\ Len(aspects) = 1
         /\ error = None
         /\ pc = "done" => visited = 1..Len(tree)
         /\ \A i \in 1..Len(tree) :
              /\ tree[i].kind \in {"Stack", "SecurityGroup", "FileSystem"}
                    <=> Taggable(tree[i])
              /\ (Taggable(tree[i]) /\ i \in visited) => tree[i].tags = expected
              /\ (Taggable(tree[i]) /\ i \notin visited) => tree[i].tags = EmptyTags
              /\ tree[i].kind = "VpcLookup" =>
                    DOMAIN tree[i] = {"kind", "id", "vpcId"}
              /\ tree[i].kind = "CfnOutput" =>
                    DOMAIN tree[i] = {"kind", "id", "value", "exportName",
                                      "description"}

C8_Witness ==
    /\ pc = "done"
    /\ \E i \in NodesOfKind("FileSystem") :
          tree[i].tags = [environment |-> Some("staging"),
                          project |-> Some("acme"),
                          owner |-> Some("ops")]
    /\ \E i \in NodesOfKind("CfnOutput") : ~Taggable(tree[i])

\* C9: applying the same tag set to a node a second (third, ...) time leaves
\* the node exactly as the first application left it: no label is added,
\* removed or changed; the first application gave every key of the tag set
\* its value and kept the other labels.
C9_TagApplicationIdempotent ==
    pc = "tagging" =>
        /\ \A i \in 2..(Len(tree) - 1) : tree[i + 1] = tree[i]
        /\ (Len(tree) >= 2 /\ Taggable(tree[1])) =>
              /\ DOMAIN tree[2].tags = DOMAIN tree[1].tags \cup DOMAIN aspects[1]
              /\ \A k \in DOMAIN aspects[1] : tree[2].tags[k] = aspects[1][k]
              /\ \A k \in DOMAIN tree[1].tags \ DOMAIN aspects[1] :
                    tree[2].tags[k] = tree[1].tags[k]
        /\ (Len(tree) >= 2 /\ ~Taggable(tree[1])) => tree[2] = tree[1]

C9_Witness ==
    /\ pc = "tagging"
    /\ Len(tree) >= 3
    /\ Taggable(tree[1])
    /\ "environment" \in DOMAIN tree[1].tags
    /\ tree[2] # tree[1]
    /\ tree[3] = tree[2]

\* C10: an assembled tree has exactly one file system, encrypted and without
\* anonymous access, exactly one security group, which is the file system's,
\* and exactly two outputs: '<APP_NAME>-<ENVIRONMENT>-efsSG' with the security
\* group's id and '<APP_NAME>-<ENVIRONMENT>-efsFileSystemId' with the file
\* system's id.
C10_AssembledTreeShape ==
    LET prefix == Str(env.APP_NAME) \o "-" \o Str(env.ENVIRONMENT)
        fss == NodesOfKind("FileSystem")
        sgs == NodesOfKind("SecurityGroup")
        outs == NodesOfKind("CfnOutput")
    IN Assembled =>
         /\ Cardinality(fss) = 1
         /\ Cardinality(sgs) = 1
         /\ Cardinality(outs) = 2
         /\ \A f \in fss, g \in sgs :
              /\ tree[f].encrypted = TRUE
              /\ tree[f].allowAnonymousAccess = FALSE
              /\ tree[f].securityGroup = Some(tree[g].id)
              /\ \E o \in outs :
                    /\ tree[o].exportName = prefix \o "-efsSG"
                    /\ tree[o].value = [ref |-> tree[g].id,
                                        attr |-> "securityGroupId"]
              /\ \E o \in outs :
                    /\ tree[o].exportName = prefix \o "-efsFileSystemId"
                    /\ tree[o].value = [ref |-> tree[f].id,
                                        attr |-> "fileSystemId"]

C10_Witness ==
    /\ pc = "done"
    /\ \E o \in NodesOfKind("CfnOutput") :
          tree[o].exportName = "acme-production-efsSG"
    /\ \E o \in NodesOfKind("CfnOutput") :
          tree[o].exportName = "acme-production-efsFileSystemId"
    /\ \E f \in NodesOfKind("FileSystem") : tree[f].encrypted

====
